---- MODULE Spec2Model ----
(***************************************************************************)
(* Managed-notifications search: the ingestion pipeline of                 *)
(* scripts/build_embeddings.py and the query pipeline of main.py.          *)
(*                                                                         *)
(* Python strings are sequences of one-character strings, so that          *)
(* joining, stripping, pattern matching and (de)serialisation are computed *)
(* character by character.                                                 *)
(***************************************************************************)
EXTENDS Integers, Sequences, FiniteSets, TLC

Builders == {1, 2}

VARIABLES
    \* process_notification_files, one activation per builder process
    corpus,      \* the files under notifications_dir, in walk order
    json_files,  \* the list rglob returned
    idx,         \* the number of files the loop has taken
    documents,   \* the three lists under construction
    metadatas,
    ids,
    errors,      \* the indices of the files whose error was printed
    pc,          \* where each builder is
    exc,         \* the exception that left the builder, "" if none
    \* build_embeddings_database
    embeddings,  \* the vectors model.encode returned, per builder
    client,      \* the directory each builder's PersistentClient has open (0: none)
    collection,  \* the collection each builder created (0: none)
    out,         \* the last message each builder printed
    store,       \* what is at db_path
    store0,      \* what was at db_path when the builds began
    uuids,       \* the number of collections created so far
    oplog,       \* the embedding and store calls each builder made so far, in order
    turns,       \* the builders in the order of their runs of store calls (at most 3 runs)
    \* the search server
    initialized, \* whether self.collection is a usable (truthy) handle
    backend,     \* what the embedding model and the store do for the request
    max_results, \* the argument of the request
    found,       \* the outcome of a call of search_notifications
    reply,       \* the outcome of a call of the tool search_service_logs
    text,        \* extract_variables: the argument, [none |-> is it None, s |-> the string]
    variables,   \* extract_variables: the returned list
    evpc         \* extract_variables: "call" before the call, "returned" after it

evVars == <<text, variables, evpc, initialized, backend, max_results, found, reply>>

seVars == <<initialized, backend, max_results, found, reply>>

pnVars == <<corpus, json_files, idx, documents, metadatas, ids, errors, pc, exc>>

dbVars == <<embeddings, client, collection, out, store, store0, uuids, oplog, turns>>

vars == <<corpus, json_files, idx, documents, metadatas, ids, errors, pc, exc,
          embeddings, client, collection, out, store, store0, uuids, oplog, turns,
          text, variables, evpc, initialized, backend, max_results, found, reply>>

(***************************************************************************)
(* Bounds                                                                  *)
(***************************************************************************)
MaxPieces == 6
MaxFiles == 3
MaxRaceFiles == 1
MaxResults == 2

(***************************************************************************)
(* Strings                                                                 *)
(***************************************************************************)
\* the characters the model uses, in code point order (Python compares str by
\* code point); CharCode is the rank of a character in that order
Alphabet ==
    << " ", "\"", "$", "'", ",", "-", ".", "/", "0", "1", "2", "3", "4", "5", "6", "7", "8", "9", ":",
       "A", "B", "C", "D", "E", "F", "G", "H", "I", "J", "K", "L", "M", "N", "O", "P",
       "Q", "R", "S", "T", "U", "V", "W", "X", "Y", "Z", "[", "\\", "]", "_",
       "a", "b", "c", "d", "e", "f", "g", "h", "i", "j", "k", "l", "m", "n", "o", "p",
       "q", "r", "s", "t", "u", "v", "w", "x", "y", "z", "{", "}" >>

CharCode(c) == CHOOSE k \in DOMAIN Alphabet : Alphabet[k] = c

RECURSIVE StrLess(_, _)
\* a < b for two Python strings
StrLess(a, b) ==
    IF a = <<>> THEN b # <<>>
    ELSE IF b = <<>> THEN FALSE
    ELSE IF Head(a) = Head(b) THEN StrLess(Tail(a), Tail(b))
    ELSE CharCode(Head(a)) < CharCode(Head(b))

SeqToSet(q) == { q[k] : k \in DOMAIN q }

RECURSIVE Flatten(_)
Flatten(ss) == IF ss = <<>> THEN <<>> ELSE Head(ss) \o Flatten(Tail(ss))

(***************************************************************************)
(* JSON values, json.dumps and json.loads                                  *)
(*                                                                         *)
(* A value is tagged with its Python type; a dict is the sequence of its   *)
(* <<key, value>> pairs in insertion order.  Numbers are non-negative      *)
(* integers (the corpus carries no others).                                *)
(***************************************************************************)
JStr(s)  == [t |-> "str", s |-> s]
JNum(n)  == [t |-> "int", n |-> n]
JBool(b) == [t |-> "bool", b |-> b]
JList(x) == [t |-> "list", items |-> x]
JDict(p) == [t |-> "dict", pairs |-> p]
JNone    == [t |-> "NoneType"]

Digits == <<"0", "1", "2", "3", "4", "5", "6", "7", "8", "9">>

RECURSIVE IntToStr(_)
IntToStr(n) == IF n < 10 THEN <<Digits[n + 1]>> ELSE IntToStr(n \div 10) \o <<Digits[(n % 10) + 1]>>

\* s.join(parts)
RECURSIVE Join(_, _)
Join(sep, parts) ==
    IF parts = <<>> THEN <<>>
    ELSE IF Len(parts) = 1 THEN parts[1]
    ELSE parts[1] \o sep \o Join(sep, Tail(parts))

RECURSIVE EscapeStr(_)
EscapeStr(s) ==
    IF s = <<>> THEN <<>>
    ELSE (IF Head(s) \in {"\"", "\\"} THEN <<"\\", Head(s)>> ELSE <<Head(s)>>) \o EscapeStr(Tail(s))

Quoted(s) == <<"\"">> \o EscapeStr(s) \o <<"\"">>

RECURSIVE JsonDumps(_)
JsonDumps(v) ==
    CASE v.t = "str"      -> Quoted(v.s)
      [] v.t = "int"      -> IntToStr(v.n)
      [] v.t = "bool"     -> IF v.b THEN <<"t", "r", "u", "e">> ELSE <<"f", "a", "l", "s", "e">>
      [] v.t = "NoneType" -> <<"n", "u", "l", "l">>
      [] v.t = "list"     ->
            <<"[">> \o Join(<<",", " ">>, [k \in DOMAIN v.items |-> JsonDumps(v.items[k])]) \o <<"]">>
      [] v.t = "dict"     ->
            <<"{">> \o Join(<<",", " ">>,
                        [k \in DOMAIN v.pairs |->
                            Quoted(v.pairs[k][1]) \o <<":", " ">> \o JsonDumps(v.pairs[k][2])])
                  \o <<"}">>

\* the outcome of a parsing step: the value and the position after it
Parsed(v, i) == [ok |-> TRUE, v |-> v, next |-> i]
ParseError   == [ok |-> FALSE, v |-> JNone, next |-> 0]

RECURSIVE SkipWs(_, _)
SkipWs(s, i) == IF i <= Len(s) /\ s[i] = " " THEN SkipWs(s, i + 1) ELSE i

HasPrefixAt(s, i, w) == i + Len(w) - 1 <= Len(s) /\ SubSeq(s, i, i + Len(w) - 1) = w

\* the characters of a string literal whose opening quote is before position i
RECURSIVE ParseStringBody(_, _, _)
ParseStringBody(s, i, acc) ==
    IF i > Len(s) THEN ParseError
    ELSE IF s[i] = "\"" THEN Parsed(JStr(acc), i + 1)
    ELSE IF s[i] = "\\"
         THEN IF i + 1 <= Len(s) /\ s[i + 1] \in {"\"", "\\"}
              THEN ParseStringBody(s, i + 2, Append(acc, s[i + 1]))
              ELSE ParseError
    ELSE ParseStringBody(s, i + 1, Append(acc, s[i]))

DigitValue(c) == (CHOOSE k \in DOMAIN Digits : Digits[k] = c) - 1

RECURSIVE ParseDigits(_, _, _)
ParseDigits(s, i, acc) ==
    IF i <= Len(s) /\ s[i] \in SeqToSet(Digits)
    THEN ParseDigits(s, i + 1, 10 * acc + DigitValue(s[i]))
    ELSE Parsed(JNum(acc), i)

\* dict[key] = value: a repeated key keeps its place and takes the new value
SetItem(pairs, key, value) ==
    IF \E k \in DOMAIN pairs : pairs[k][1] = key
    THEN [k \in DOMAIN pairs |-> IF pairs[k][1] = key THEN <<key, value>> ELSE pairs[k]]
    ELSE Append(pairs, <<key, value>>)

RECURSIVE ParseValue(_, _)
RECURSIVE ParseItems(_, _, _)
RECURSIVE ParseMembers(_, _, _)

\* the items of an array after "[" or ",": s[i] starts an item
ParseItems(s, i, acc) ==
    LET r == ParseValue(s, i)
    IN  IF ~r.ok THEN ParseError
        ELSE LET j == SkipWs(s, r.next)
             IN  IF j > Len(s) THEN ParseError
                 ELSE IF s[j] = "]" THEN Parsed(JList(Append(acc, r.v)), j + 1)
                 ELSE IF s[j] = "," THEN ParseItems(s, j + 1, Append(acc, r.v))
                 ELSE ParseError

\* the members of an object after "{" or ",": s[i] starts a key
ParseMembers(s, i, acc) ==
    LET k == SkipWs(s, i)
    IN  IF k > Len(s) \/ s[k] # "\"" THEN ParseError
        ELSE LET key == ParseStringBody(s, k + 1, <<>>)
             IN  IF ~key.ok THEN ParseError
                 ELSE LET c == SkipWs(s, key.next)
                      IN  IF c > Len(s) \/ s[c] # ":" THEN ParseError
                          ELSE LET r == ParseValue(s, c + 1)
                               IN  IF ~r.ok THEN ParseError
                                   ELSE LET j   == SkipWs(s, r.next)
                                            new == SetItem(acc, key.v.s, r.v)
                                        IN  IF j > Len(s) THEN ParseError
                                            ELSE IF s[j] = "}" THEN Parsed(JDict(new), j + 1)
                                            ELSE IF s[j] = "," THEN ParseMembers(s, j + 1, new)
                                            ELSE ParseError

ParseValue(s, i0) ==
    LET i == SkipWs(s, i0)
    IN  IF i > Len(s) THEN ParseError
        ELSE CASE s[i] = "\"" -> ParseStringBody(s, i + 1, <<>>)
               [] s[i] = "["  ->
                    LET j == SkipWs(s, i + 1)
                    IN  IF j <= Len(s) /\ s[j] = "]" THEN Parsed(JList(<<>>), j + 1)
                        ELSE ParseItems(s, j, <<>>)
               [] s[i] = "{"  ->
                    LET j == SkipWs(s, i + 1)
                    IN  IF j <= Len(s) /\ s[j] = "}" THEN Parsed(JDict(<<>>), j + 1)
                        ELSE ParseMembers(s, j, <<>>)
               [] s[i] = "0"  -> Parsed(JNum(0), i + 1)
               [] s[i] \in SeqToSet(Digits) \ {"0"} -> ParseDigits(s, i, 0)
               [] HasPrefixAt(s, i, <<"t", "r", "u", "e">>) -> Parsed(JBool(TRUE), i + 4)
               [] HasPrefixAt(s, i, <<"f", "a", "l", "s", "e">>) -> Parsed(JBool(FALSE), i + 5)
               [] HasPrefixAt(s, i, <<"n", "u", "l", "l">>) -> Parsed(JNone, i + 4)
               [] OTHER -> ParseError

\* json.loads(s): the value, or ok = FALSE for json.JSONDecodeError
JsonLoads(s) ==
    LET r == ParseValue(s, 1)
    IN  IF r.ok /\ SkipWs(s, r.next) > Len(s) THEN r ELSE ParseError

(***************************************************************************)
(* extract_variables                                                        *)
(***************************************************************************)
\* the end of the run of [^}] characters that starts at position i
RECURSIVE RunEnd(_, _)
RunEnd(s, i) == IF i <= Len(s) /\ s[i] # "}" THEN RunEnd(s, i + 1) ELSE i

\* re.findall(r'\$\{([^}]+)\}', s) from position i on: the captured groups of
\* the leftmost non-overlapping matches, in order
RECURSIVE FindAll(_, _)
FindAll(s, i) ==
    IF i > Len(s) THEN <<>>
    ELSE IF s[i] = "$" /\ i + 1 <= Len(s) /\ s[i + 1] = "{"
         THEN LET e == RunEnd(s, i + 2)
              IN  IF e > i + 2 /\ e <= Len(s)
                  THEN <<SubSeq(s, i + 2, e - 1)>> \o FindAll(s, e + 1)
                  ELSE FindAll(s, i + 1)
         ELSE FindAll(s, i + 1)

\* a sort that orders the wrong way round
RECURSIVE SortedListDescending(_)
SortedListDescending(S) ==
    IF S = {} THEN <<>>
    ELSE LET m == CHOOSE x \in S : \A y \in S : y = x \/ StrLess(y, x)
         IN  <<m>> \o SortedListDescending(S \ {m})

\* sorted(list(S)) for a set S of strings
RECURSIVE SortedList(_)
SortedList(S) ==
    IF S = {} THEN <<>>
    ELSE LET m == CHOOSE x \in S : \A y \in S : y = x \/ StrLess(x, y)
         IN  <<m>> \o SortedList(S \ {m})

\* set(variables): the list -> set conversion of line 27
ListToSet(q) == SeqToSet(q)

extract_variables(t) ==
    IF t.none \/ t.s = <<>> THEN <<>>
    ELSE SortedList(ListToSet(FindAll(t.s, 1)))

None == [none |-> TRUE, s |-> <<>>]
PyStr(s) == [none |-> FALSE, s |-> s]

(***************************************************************************)
(* Notification records                                                    *)
(***************************************************************************)
K_summary       == <<"s", "u", "m", "m", "a", "r", "y">>
K_description   == <<"d", "e", "s", "c", "r", "i", "p", "t", "i", "o", "n">>
K_log_type      == <<"l", "o", "g", "_", "t", "y", "p", "e">>
K_service_name  == <<"s", "e", "r", "v", "i", "c", "e", "_", "n", "a", "m", "e">>
K_tags          == <<"_", "t", "a", "g", "s">>
K_severity      == <<"s", "e", "v", "e", "r", "i", "t", "y">>
K_internal_only == <<"i", "n", "t", "e", "r", "n", "a", "l", "_", "o", "n", "l", "y">>
S_Unknown       == <<"U", "n", "k", "n", "o", "w", "n">>
S_root          == <<"r", "o", "o", "t">>
S_notification_ == <<"n", "o", "t", "i", "f", "i", "c", "a", "t", "i", "o", "n", "_">>

\* the outcome of an expression: a value, or the exception it raised
Value(v)  == [ok |-> TRUE, v |-> v, exc |-> ""]
Raised(e) == [ok |-> FALSE, v |-> <<>>, exc |-> e]

\* bool(v)
Truthy(v) ==
    CASE v.t = "str"      -> v.s # <<>>
      [] v.t = "int"      -> v.n # 0
      [] v.t = "bool"     -> v.b
      [] v.t = "NoneType" -> FALSE
      [] v.t = "list"     -> v.items # <<>>
      [] v.t = "dict"     -> v.pairs # <<>>

\* repr(v), for strings without quote characters
RECURSIVE Repr(_)
Repr(v) ==
    CASE v.t = "str"      -> <<"'">> \o v.s \o <<"'">>
      [] v.t = "int"      -> IntToStr(v.n)
      [] v.t = "bool"     -> IF v.b THEN <<"T", "r", "u", "e">> ELSE <<"F", "a", "l", "s", "e">>
      [] v.t = "NoneType" -> <<"N", "o", "n", "e">>
      [] v.t = "list"     ->
            <<"[">> \o Join(<<",", " ">>, [k \in DOMAIN v.items |-> Repr(v.items[k])]) \o <<"]">>
      [] v.t = "dict"     ->
            <<"{">> \o Join(<<",", " ">>,
                        [k \in DOMAIN v.pairs |->
                            Repr(JStr(v.pairs[k][1])) \o <<":", " ">> \o Repr(v.pairs[k][2])])
                  \o <<"}">>

\* str(v)
Str(v) == IF v.t = "str" THEN v.s ELSE Repr(v)

IsSubstring(w, s) == \E i \in 1..(Len(s) - Len(w) + 1) : SubSeq(s, i, i + Len(w) - 1) = w

\* key in d: TRUE, FALSE or TypeError
Contains(d, key) ==
    CASE d.t = "dict" -> Value(\E k \in DOMAIN d.pairs : d.pairs[k][1] = key)
      [] d.t = "list" -> Value(\E k \in DOMAIN d.items : d.items[k] = JStr(key))
      [] d.t = "str"  -> Value(IsSubstring(key, d.s))
      [] OTHER        -> Raised("TypeError")

\* d[key] for a key that `key in d` found
GetItem(d, key) ==
    IF d.t = "dict"
    THEN Value(d.pairs[CHOOSE k \in DOMAIN d.pairs : d.pairs[k][1] = key][2])
    ELSE Raised("TypeError")

\* `key in d and d[key]` as a condition
HasTruthy(d, key) ==
    LET c == Contains(d, key)
    IN  IF ~c.ok THEN c
        ELSE IF ~c.v THEN Value(FALSE)
        ELSE LET g == GetItem(d, key)
             IN  IF ~g.ok THEN g ELSE Value(Truthy(g.v))

\* d.get(key, default)
Get(d, key, default) ==
    IF \E k \in DOMAIN d.pairs : d.pairs[k][1] = key THEN GetItem(d, key).v ELSE default

\* the elements list.extend(v) appends
Iterate(v) ==
    CASE v.t = "list" -> Value(v.items)
      [] v.t = "str"  -> Value([k \in DOMAIN v.s |-> JStr(<<v.s[k]>>)])
      [] v.t = "dict" -> Value([k \in DOMAIN v.pairs |-> JStr(v.pairs[k][1])])
      [] OTHER        -> Raised("TypeError")

\* the loop of lines 35-37 over the fields that remain
RECURSIVE FieldParts(_, _)
FieldParts(d, fields) ==
    IF fields = <<>> THEN Value(<<>>)
    ELSE LET h == HasTruthy(d, Head(fields))
         IN  IF ~h.ok THEN h
             ELSE LET rest == FieldParts(d, Tail(fields))
                  IN  IF ~rest.ok THEN rest
                      ELSE IF h.v THEN Value(<<JStr(Str(GetItem(d, Head(fields)).v))>> \o rest.v)
                      ELSE rest

searchable_fields == <<K_summary, K_description, K_log_type, K_service_name>>

extract_searchable_text(d) ==
    LET fp == FieldParts(d, searchable_fields)
    IN  IF ~fp.ok THEN fp
        ELSE LET h == HasTruthy(d, K_tags)
             IN  IF ~h.ok THEN h
                 ELSE LET tags == IF h.v THEN Iterate(GetItem(d, K_tags).v) ELSE Value(<<>>)
                      IN  IF ~tags.ok THEN tags
                          ELSE LET text_parts == fp.v \o tags.v
                               IN  IF \E k \in DOMAIN text_parts : text_parts[k].t # "str"
                                   THEN Raised("TypeError")
                                   ELSE Value(Join(<<" ">>, [k \in DOMAIN text_parts |-> text_parts[k].s]))

\* a blank test that forgets to strip
IsEmptyUnstripped(s) == s = <<>>

\* s.strip() == ""
IsBlank(s) == \A k \in DOMAIN s : s[k] = " "

\* get_folder_metadata, for the path relative to the base
get_folder_metadata(parts) == IF Len(parts) > 1 THEN parts[1] ELSE S_root

\* lines 74-77: the placeholders of summary and description
AllVariables(d) ==
    UNION { IF HasTruthy(d, f).v
            THEN SeqToSet(extract_variables(PyStr(Str(GetItem(d, f).v))))
            ELSE {} : f \in {K_summary, K_description} }

\* lines 80-89
Metadata(parts, d) ==
    [ file_path     |-> JStr(Join(<<"/">>, parts)),
      folder        |-> JStr(get_folder_metadata(parts)),
      severity      |-> Get(d, K_severity, JStr(S_Unknown)),
      service_name  |-> Get(d, K_service_name, JStr(S_Unknown)),
      log_type      |-> Get(d, K_log_type, JStr(S_Unknown)),
      internal_only |-> Get(d, K_internal_only, JBool(FALSE)),
      variables     |-> JStr(JsonDumps(JList([k \in DOMAIN SortedList(AllVariables(d)) |->
                                                 JStr(SortedList(AllVariables(d))[k])]))),
      full_json     |-> JStr(JsonDumps(d)) ]

\* an id that numbers the files in pairs
NotificationIdHalved(i) == S_notification_ \o IntToStr(i \div 2)

\* f"notification_{idx}"
NotificationId(i) == S_notification_ \o IntToStr(i)

\* the exceptions the except clause of line 92 catches
CaughtExceptions == {"JSONDecodeError", "FileNotFoundError"}

\* lines 64-65: open the file and json.load it
LoadFile(f) ==
    IF f.open # "ok" THEN Raised(f.open)
    ELSE LET r == JsonLoads(f.content)
         IN  IF r.ok THEN Value(r.v) ELSE Raised("JSONDecodeError")

(***************************************************************************)
(* process_notification_files                                              *)
(***************************************************************************)
\* lines 55-60
Walk(b) ==
    /\ pc[b] = "process"
    /\ json_files' = [json_files EXCEPT ![b] = corpus[b]]
    /\ documents' = [documents EXCEPT ![b] = <<>>]
    /\ metadatas' = [metadatas EXCEPT ![b] = <<>>]
    /\ ids' = [ids EXCEPT ![b] = <<>>]
    /\ idx' = [idx EXCEPT ![b] = 0]
    /\ pc' = [pc EXCEPT ![b] = "loop"]
    /\ UNCHANGED <<corpus, errors, exc, dbVars, evVars>>

\* lines 62-94: one iteration of the loop, on json_files[idx]
ProcessFile(b) ==
    /\ pc[b] = "loop"
    /\ idx[b] < Len(json_files[b])
    /\ LET json_file == json_files[b][idx[b] + 1]
           loaded    == LoadFile(json_file)
           st        == IF loaded.ok THEN extract_searchable_text(loaded.v) ELSE loaded
           raised    == IF st.ok THEN "" ELSE st.exc
       IN  /\ idx' = [idx EXCEPT ![b] = @ + 1]
           /\ IF raised = "" /\ ~IsBlank(st.v)
              THEN /\ documents' = [documents EXCEPT ![b] = Append(@, st.v)]
                   /\ metadatas' = [metadatas EXCEPT ![b] = Append(@, Metadata(json_file.path, loaded.v))]
                   /\ ids' = [ids EXCEPT ![b] = Append(@, NotificationId(idx[b]))]
              ELSE UNCHANGED <<documents, metadatas, ids>>
           /\ errors' = [errors EXCEPT ![b] = IF raised \in CaughtExceptions THEN Append(@, idx[b]) ELSE @]
           /\ IF raised = "" \/ raised \in CaughtExceptions
              THEN UNCHANGED <<pc, exc>>
              ELSE /\ pc' = [pc EXCEPT ![b] = "raised"]
                   /\ exc' = [exc EXCEPT ![b] = raised]
    /\ UNCHANGED <<corpus, json_files, dbVars, evVars>>

\* lines 96-97
ProcessReturn(b) ==
    /\ pc[b] = "loop"
    /\ idx[b] = Len(json_files[b])
    /\ pc' = [pc EXCEPT ![b] = "returned"]
    /\ UNCHANGED <<corpus, json_files, idx, documents, metadatas, ids, errors, exc, dbVars, evVars>>

(***************************************************************************)
(* The embedding model and the vector store at db_path                     *)
(***************************************************************************)
\* model.encode: one vector per text, in order; a vector is a function of its text
Embed(doc) == [of |-> doc]
\* an encode that returns the vectors in reverse order
EncodeReversed(docs) == [k \in DOMAIN docs |-> Embed(docs[Len(docs) + 1 - k])]

Encode(docs) == [k \in DOMAIN docs |-> Embed(docs[k])]

\* db_path: whether the directory exists, which incarnation of it this is,
\* the "managed_notifications" collection in it (0: none) and its records
NoStore == [exists |-> FALSE, dir |-> 0, coll |-> 0, recs |-> {}]

\* shutil.rmtree(db_path)
StoreRmtree(st) == [exists |-> FALSE, dir |-> st.dir, coll |-> 0, recs |-> {}]

\* db_path.mkdir(parents=True, exist_ok=True), also what PersistentClient does
\* to a path that is not there
StoreMkdir(st) == IF st.exists THEN st ELSE [exists |-> TRUE, dir |-> st.dir + 1, coll |-> 0, recs |-> {}]

\* client.delete_collection(name)
StoreDeleteCollection(st) == [st EXCEPT !.coll = 0, !.recs = {}]

\* client.create_collection(name) giving the collection the id u
StoreCreateCollection(st, u) == [st EXCEPT !.coll = u, !.recs = {}]

\* an add that loses the last record of the batch
StoreAddAllButLast(st, batch) ==
    [st EXCEPT !.recs = @ \cup { batch[k] : k \in 1..(Len(batch) - 1) }]

\* collection.add: the records whose id the collection does not hold yet
StoreAdd(st, batch) ==
    [st EXCEPT !.recs = @ \cup { batch[k] : k \in { m \in DOMAIN batch :
                                     \A r \in st.recs : r.id # batch[m].id } }]

\* the (id, vector, document, metadata) tuples the builder passes to add
Batch(b) ==
    [k \in DOMAIN ids[b] |->
        [id |-> ids[b][k], embedding |-> embeddings[b][k],
         document |-> documents[b][k], metadata |-> metadatas[b][k]]]

\* add checks that its four lists have one length and that no id repeats
ValidBatch(b) ==
    /\ Len(embeddings[b]) = Len(ids[b])
    /\ Len(documents[b]) = Len(ids[b])
    /\ Len(metadatas[b]) = Len(ids[b])
    /\ \A k, m \in DOMAIN ids[b] : k # m => ids[b][k] # ids[b][m]

\* the builder's client has the directory open that is at db_path now
Current(b) == store.exists /\ client[b] = store.dir

\* what a call through the client can do: act on the store, or, when the
\* directory was removed under the client, fail or write to what is no longer there
Outcomes(b) == IF Current(b) THEN {"ok"} ELSE {"lost", "raise"}

\* the calls that read or write db_path
StoreOpNames == {"exists", "rmtree", "mkdir", "client", "delete_collection",
                 "create_collection", "add", "query"}

Log(b, op) ==
    /\ oplog' = [oplog EXCEPT ![b] = Append(@, op)]
    /\ turns' = IF op \in StoreOpNames /\ Len(turns) < 3 /\ (turns = <<>> \/ turns[Len(turns)] # b)
                THEN Append(turns, b)
                ELSE turns

NoBuild ==
    /\ embeddings = [b \in Builders |-> <<>>]
    /\ client = [b \in Builders |-> 0]
    /\ collection = [b \in Builders |-> 0]
    /\ out = [b \in Builders |-> ""]
    /\ uuids = 0
    /\ oplog = [b \in Builders |-> <<>>]
    /\ turns = <<>>

Raise(b, e) ==
    /\ pc' = [pc EXCEPT ![b] = "raised"]
    /\ exc' = [exc EXCEPT ![b] = e]

Goto(b, l) ==
    /\ pc' = [pc EXCEPT ![b] = l]
    /\ UNCHANGED exc

pnData == <<corpus, json_files, idx, documents, metadatas, ids, errors>>

(***************************************************************************)
(* build_embeddings_database                                               *)
(***************************************************************************)
\* lines 131-135: load the model and call process_notification_files
BuildStart(b) ==
    /\ pc[b] = "build"
    /\ Goto(b, "process")
    /\ UNCHANGED <<pnData, dbVars, evVars>>

\* a build that goes on with an empty batch
CheckDocumentsAlwaysProceeds(b) ==
    /\ pc[b] = "returned"
    /\ Goto(b, "encode")
    /\ UNCHANGED <<pnData, dbVars, evVars>>

\* lines 137-139
CheckDocuments(b) ==
    /\ pc[b] = "returned"
    /\ IF documents[b] = <<>>
       THEN /\ out' = [out EXCEPT ![b] = "No documents to process. Exiting."]
            /\ Goto(b, "done")
       ELSE /\ Goto(b, "encode")
            /\ UNCHANGED out
    /\ UNCHANGED <<pnData, embeddings, client, collection, store, store0, uuids, oplog, turns, evVars>>

\* lines 141-142: the model returns the vectors or raises
EncodeDocuments(b) ==
    /\ pc[b] = "encode"
    /\ \E ok \in BOOLEAN :
          IF ok
          THEN /\ embeddings' = [embeddings EXCEPT ![b] = Encode(documents[b])]
               /\ Goto(b, "exists")
          ELSE /\ Raise(b, "RuntimeError")
               /\ UNCHANGED embeddings
    /\ Log(b, "encode")
    /\ UNCHANGED <<pnData, client, collection, out, store, store0, uuids, evVars>>

\* line 145
CheckExists(b) ==
    /\ pc[b] = "exists"
    /\ Goto(b, IF store.exists THEN "rmtree" ELSE "mkdir")
    /\ Log(b, "exists")
    /\ UNCHANGED <<pnData, embeddings, client, collection, out, store, store0, uuids, evVars>>

\* lines 146-147
Rmtree(b) ==
    /\ pc[b] = "rmtree"
    /\ IF store.exists
       THEN /\ store' = StoreRmtree(store)
            /\ Goto(b, "mkdir")
       ELSE /\ Raise(b, "FileNotFoundError")
            /\ UNCHANGED store
    /\ Log(b, "rmtree")
    /\ UNCHANGED <<pnData, embeddings, client, collection, out, store0, uuids, evVars>>

\* line 149
Mkdir(b) ==
    /\ pc[b] = "mkdir"
    /\ store' = StoreMkdir(store)
    /\ Goto(b, "client")
    /\ Log(b, "mkdir")
    /\ UNCHANGED <<pnData, embeddings, client, collection, out, store0, uuids, evVars>>

\* line 151
OpenClient(b) ==
    /\ pc[b] = "client"
    /\ store' = StoreMkdir(store)
    /\ client' = [client EXCEPT ![b] = store'.dir]
    /\ Goto(b, "delete")
    /\ Log(b, "client")
    /\ UNCHANGED <<pnData, embeddings, collection, out, store0, uuids, evVars>>

\* lines 153-158: whatever delete_collection raises is swallowed
DeleteCollection(b) ==
    /\ pc[b] = "delete"
    /\ store' = IF Current(b) THEN StoreDeleteCollection(store) ELSE store
    /\ Goto(b, "create")
    /\ Log(b, "delete_collection")
    /\ UNCHANGED <<pnData, embeddings, client, collection, out, store0, uuids, evVars>>

\* lines 160-163: create_collection raises if the name is taken
CreateCollection(b) ==
    /\ pc[b] = "create"
    /\ \E o \in Outcomes(b) :
          IF o = "raise" \/ (o = "ok" /\ store.coll # 0)
          THEN /\ Raise(b, "ChromaError")
               /\ UNCHANGED <<store, collection, uuids>>
          ELSE /\ uuids' = uuids + 1
               /\ collection' = [collection EXCEPT ![b] = uuids']
               /\ store' = IF o = "ok" THEN StoreCreateCollection(store, uuids') ELSE store
               /\ Goto(b, "add")
    /\ Log(b, "create_collection")
    /\ UNCHANGED <<pnData, embeddings, client, out, store0, evVars>>

\* lines 165-174: add raises if the collection is gone or the batch is not valid
Add(b) ==
    /\ pc[b] = "add"
    /\ \E o \in Outcomes(b) :
          IF o = "raise" \/ ~ValidBatch(b) \/ (o = "ok" /\ store.coll # collection[b])
          THEN /\ Raise(b, IF ValidBatch(b) THEN "ChromaError" ELSE "ValueError")
               /\ UNCHANGED <<store, out>>
          ELSE /\ store' = IF o = "ok" THEN StoreAdd(store, Batch(b)) ELSE store
               /\ out' = [out EXCEPT ![b] = "Successfully added documents to ChromaDB"]
               /\ Goto(b, "test")
    /\ Log(b, "add")
    /\ UNCHANGED <<pnData, embeddings, client, collection, store0, uuids, evVars>>

\* lines 176-178 and test_search: one query, which raises if the collection is gone
TestSearch(b) ==
    /\ pc[b] = "test"
    /\ \E o \in Outcomes(b) :
          IF o = "raise" \/ (o = "ok" /\ store.coll # collection[b])
          THEN Raise(b, "ChromaError")
          ELSE Goto(b, "done")
    /\ Log(b, "query")
    /\ UNCHANGED <<pnData, embeddings, client, collection, out, store, store0, uuids, evVars>>

(***************************************************************************)
(* The search server (main.py)                                             *)
(*                                                                         *)
(* Distances are in hundredths, so that 1 - distance is 100 - distance.    *)
(***************************************************************************)
\* a call that has not been made, one that returned v, one that raised e
NotCalled   == [state |-> "none", v |-> <<>>, exc |-> ""]
Returned(v) == [state |-> "returned", v |-> v, exc |-> ""]
Threw(e)    == [state |-> "raised", v |-> <<>>, exc |-> e]

\* a key of the store's result: missing (or None), or a list with one inner
\* list per query embedding
Missing   == [has |-> FALSE, outer |-> <<>>]
Outer(o)  == [has |-> TRUE, outer |-> o]

\* results.get(key) is truthy
HasKey(results, key) == results[key].has /\ results[key].outer # <<>>

\* lines 69-71: results[key][0] if results.get(key) and results[key] else []
FirstOrEmpty(results, key) == IF HasKey(results, key) THEN results[key].outer[1] ELSE <<>>

\* line 63: not results or not results.get('ids') or not results['ids'][0]
NoMatches(results) ==
    \/ results.none
    \/ ~HasKey(results, "ids")
    \/ results.ids.outer[1] = <<>>

\* an index test that is off by one
AtOffByOne(q, i, default) == IF i < Len(q) THEN q[i] ELSE default

\* q[i] if i < len(q) else default, for the one-based i
At(q, i, default) == IF i <= Len(q) THEN q[i] ELSE default

\* metadata.get(key, default) on a stored metadata record
MetaGet(metadata, key, default) == IF key \in DOMAIN metadata.m THEN metadata.m[key] ELSE default

EmptyMetadata == [t |-> "dict", m |-> <<>>]

\* lines 78-82 and 85-89: json.loads(str(payload)) if payload else fallback,
\* with the fallback for a payload that does not parse
Decode(payload, fallback) ==
    IF ~Truthy(payload) THEN fallback
    ELSE LET r == JsonLoads(Str(payload))
         IN  IF r.ok THEN r.v ELSE fallback

\* lines 73-106: the result for ids[i], or the exception of metadata.get on
\* an entry that is None
FormatResult(ids_, metadatas_, distances_, documents_, i) ==
    LET metadata == At(metadatas_, i, EmptyMetadata)
    IN  IF metadata.t # "dict" THEN Raised("AttributeError")
        ELSE Value(
          [ id            |-> ids_[i],
            distance      |-> At(distances_, i, 0),
            similarity    |-> 100 - At(distances_, i, 0),
            file_path     |-> Str(MetaGet(metadata, "file_path", JStr(<<>>))),
            folder        |-> Str(MetaGet(metadata, "folder", JStr(<<>>))),
            severity      |-> Str(MetaGet(metadata, "severity", JStr(S_Unknown))),
            service_name  |-> Str(MetaGet(metadata, "service_name", JStr(S_Unknown))),
            log_type      |-> Str(MetaGet(metadata, "log_type", JStr(S_Unknown))),
            internal_only |-> Truthy(MetaGet(metadata, "internal_only", JBool(FALSE))),
            variables     |-> Decode(MetaGet(metadata, "variables", JStr(<<"[", "]">>)), JList(<<>>)),
            document_text |-> At(documents_, i, <<>>),
            notification  |-> Decode(MetaGet(metadata, "full_json", JStr(<<"{", "}">>)), JDict(<<>>)) ])

\* lines 66-108
FormatResults(results) ==
    LET ids_       == results.ids.outer[1]
        metadatas_ == FirstOrEmpty(results, "metadatas")
        distances_ == FirstOrEmpty(results, "distances")
        documents_ == FirstOrEmpty(results, "documents")
        each       == [i \in DOMAIN ids_ |-> FormatResult(ids_, metadatas_, distances_, documents_, i)]
    IN  IF \E i \in DOMAIN each : ~each[i].ok
        THEN Threw(each[CHOOSE i \in DOMAIN each : ~each[i].ok /\ \A j \in 1..(i - 1) : each[j].ok].exc)
        ELSE Returned([i \in DOMAIN each |-> each[i].v])

\* a search that takes an unusable collection for an empty index
search_notifications_lenient ==
    IF ~initialized THEN Returned(<<>>)
    ELSE IF backend.encode = "raise" THEN Threw("ModelError")
    ELSE IF backend.query = "raise" THEN Threw("ChromaError")
    ELSE IF NoMatches(backend.results) THEN Returned(<<>>)
    ELSE FormatResults(backend.results)

\* NotificationSearchServer.search_notifications, lines 50-108
search_notifications ==
    IF ~initialized THEN Threw("RuntimeError")
    ELSE IF backend.encode = "raise" THEN Threw("ModelError")
    ELSE IF backend.query = "raise" THEN Threw("ChromaError")
    ELSE IF NoMatches(backend.results) THEN Returned(<<>>)
    ELSE FormatResults(backend.results)

AdvisoryRecord ==
    [ message    |-> "No matching notifications found",
      suggestion |-> "Try using different keywords or check if the database contains relevant notifications" ]

ErrorRecord(e) ==
    [ error      |-> <<"Search failed: ", e>>,
      suggestion |-> "Ensure the embeddings database has been built by running scripts/build_embeddings.py" ]

\* a handler that catches RuntimeError only
CaughtRuntimeErrorOnly(e) == e = "RuntimeError"

\* the exceptions `except Exception` catches: all that these calls raise
CaughtBySearch(e) == e \in {"RuntimeError", "ModelError", "ChromaError", "AttributeError"}

\* search_service_logs, lines 160-178
search_service_logs(results) ==
    IF results.state = "raised"
    THEN IF CaughtBySearch(results.exc) THEN Returned(<<ErrorRecord(results.exc)>>)
         ELSE results
    ELSE IF results.v = <<>> THEN Returned(<<AdvisoryRecord>>)
    ELSE results

NoSearch ==
    /\ initialized = FALSE
    /\ backend = [encode |-> "ok", query |-> "ok",
                  results |-> [none |-> TRUE, ids |-> Missing, metadatas |-> Missing,
                               distances |-> Missing, documents |-> Missing]]
    /\ max_results = 0
    /\ found = NotCalled
    /\ reply = NotCalled

\* a direct call of the method
SearchNotifications ==
    /\ max_results > 0
    /\ found = NotCalled
    /\ found' = search_notifications
    /\ UNCHANGED <<initialized, backend, max_results, reply, text, variables, evpc, pnVars, dbVars>>

\* a call of the tool
SearchServiceLogs ==
    /\ max_results > 0
    /\ reply = NotCalled
    /\ \E results \in {search_notifications} : reply' = search_service_logs(results)
    /\ UNCHANGED <<initialized, backend, max_results, found, text, variables, evpc, pnVars, dbVars>>

(***************************************************************************)
(* The corpus                                                              *)
(***************************************************************************)
SampleSummary == <<"p", " ", "$", "{", "B", "}", " ", "$", "{", "A", "}">>

\* the contents a file of the corpus may have
Contents ==
    [ full      |-> JsonDumps(JDict(<< <<K_summary, JStr(SampleSummary)>>,
                                       <<K_description, JStr(<<"$", "{", "A", "}">>)>>,
                                       <<K_service_name, JStr(<<"S", "R", "E">>)>>,
                                       <<K_severity, JStr(<<"I", "n", "f", "o">>)>>,
                                       <<K_internal_only, JBool(TRUE)>>,
                                       <<K_tags, JList(<<JStr(<<"t">>)>>)>> >>)),
      summary   |-> JsonDumps(JDict(<< <<K_summary, JStr(<<"x">>)>> >>)),
      number    |-> JsonDumps(JDict(<< <<K_log_type, JNum(7)>> >>)),
      tags      |-> JsonDumps(JDict(<< <<K_tags, JList(<<JStr(<<"t">>), JStr(<<"u">>)>>)>> >>)),
      blank     |-> JsonDumps(JDict(<< <<K_summary, JStr(<<" ">>)>> >>)),
      empty     |-> JsonDumps(JDict(<<>>)),
      emptylist |-> JsonDumps(JList(<<>>)),
      badtags   |-> JsonDumps(JDict(<< <<K_summary, JStr(<<"x">>)>>, <<K_tags, JList(<<JNum(1)>>)>> >>)),
      scalar    |-> JsonDumps(JNum(5)),
      truncated |-> <<"{", "\"", "s", "\"", ":">> ]

\* a file that opens and decodes, and the three ways it does not
Files ==
    { [open |-> "ok", content |-> Contents[k]] : k \in DOMAIN Contents }
    \cup { [open |-> e, content |-> <<>>] :
              e \in {"FileNotFoundError", "PermissionError", "UnicodeDecodeError"} }

\* the path of the k-th file of the walk, relative to notifications_dir
PathOf(k) ==
    LET name == <<"f">> \o IntToStr(k) \o <<".", "j", "s", "o", "n">>
    IN  IF k % 2 = 1 THEN << <<"h", "c", "p">>, name >> ELSE <<name>>

\* the corpora of n files
CorporaOver(F, n) ==
    { [k \in 1..n |-> [path |-> PathOf(k), open |-> c[k].open, content |-> c[k].content]] :
        c \in [1..n -> F] }

Corpora == UNION { CorporaOver(Files, n) : n \in 0..MaxFiles }

InitIngest ==
    /\ corpus \in { [b \in Builders |-> IF b = 1 THEN c ELSE <<>>] : c \in Corpora }
    /\ json_files = [b \in Builders |-> <<>>]
    /\ idx = [b \in Builders |-> 0]
    /\ documents = [b \in Builders |-> <<>>]
    /\ metadatas = [b \in Builders |-> <<>>]
    /\ ids = [b \in Builders |-> <<>>]
    /\ errors = [b \in Builders |-> <<>>]
    /\ pc = [b \in Builders |-> IF b = 1 THEN "process" ELSE "idle"]
    /\ exc = [b \in Builders |-> ""]
    /\ NoBuild
    /\ store = NoStore
    /\ store0 = NoStore
    /\ text = None
    /\ variables = <<>>
    /\ evpc = "idle"
    /\ NoSearch

NextIngest ==
    \E b \in Builders : Walk(b) \/ ProcessFile(b) \/ ProcessReturn(b)

SpecIngest == InitIngest /\ [][NextIngest]_vars

Pieces == { <<"$", "{">>, <<"}">>, <<"{">>, <<"A">>, <<"B">> }

RECURSIVE PieceSeqs(_)
PieceSeqs(n) ==
    IF n = 0 THEN { <<>> }
    ELSE LET P == PieceSeqs(n - 1)
         IN  P \cup { Append(p, x) : p \in { q \in P : Len(q) = n - 1 }, x \in Pieces }

Texts == { Flatten(p) : p \in PieceSeqs(MaxPieces) }

\* no builder process runs
IdleBuilders ==
    /\ corpus = [b \in Builders |-> <<>>]
    /\ json_files = [b \in Builders |-> <<>>]
    /\ idx = [b \in Builders |-> 0]
    /\ documents = [b \in Builders |-> <<>>]
    /\ metadatas = [b \in Builders |-> <<>>]
    /\ ids = [b \in Builders |-> <<>>]
    /\ errors = [b \in Builders |-> <<>>]
    /\ pc = [b \in Builders |-> "idle"]
    /\ exc = [b \in Builders |-> ""]
    /\ NoBuild
    /\ store = NoStore
    /\ store0 = NoStore

InitExtract ==
    /\ IdleBuilders
    /\ NoSearch
    /\ text \in { PyStr(s) : s \in Texts } \cup {None}
    /\ variables = <<>>
    /\ evpc = "call"

ExtractVariables ==
    /\ evpc = "call"
    /\ variables' = extract_variables(text)
    /\ evpc' = "returned"
    /\ UNCHANGED <<text, pnVars, dbVars, seVars>>

NextExtract == ExtractVariables

SpecExtract == InitExtract /\ [][NextExtract]_vars

(***************************************************************************)
(* Builds                                                                  *)
(***************************************************************************)
\* the files of the corpora the builds read
BuildFiles ==
    { [open |-> "ok", content |-> Contents[k]] : k \in {"full", "summary", "blank", "truncated"} }
    \cup { [open |-> "PermissionError", content |-> <<>>] }

BuildCorpora == UNION { CorporaOver(BuildFiles, n) : n \in 0..MaxFiles }

S_old == <<"o", "l", "d">>

\* the index an earlier build left at db_path
OldRecord(i) ==
    [id |-> NotificationId(i), embedding |-> Embed(S_old), document |-> S_old,
     metadata |-> Metadata(PathOf(i + 1), JDict(<< <<K_summary, JStr(S_old)>> >>))]

OldStore == [exists |-> TRUE, dir |-> 1, coll |-> 1, recs |-> {OldRecord(0), OldRecord(5)}]

Stores == {NoStore, StoreMkdir(NoStore), OldStore}

InitBuilders(C, running) ==
    /\ corpus \in { [b \in Builders |-> IF b \in running THEN c[b] ELSE <<>>] : c \in [running -> C] }
    /\ json_files = [b \in Builders |-> <<>>]
    /\ idx = [b \in Builders |-> 0]
    /\ documents = [b \in Builders |-> <<>>]
    /\ metadatas = [b \in Builders |-> <<>>]
    /\ ids = [b \in Builders |-> <<>>]
    /\ errors = [b \in Builders |-> <<>>]
    /\ pc = [b \in Builders |-> IF b \in running THEN "build" ELSE "idle"]
    /\ exc = [b \in Builders |-> ""]
    /\ embeddings = [b \in Builders |-> <<>>]
    /\ client = [b \in Builders |-> 0]
    /\ collection = [b \in Builders |-> 0]
    /\ out = [b \in Builders |-> ""]
    /\ store \in Stores
    /\ store0 = store
    /\ uuids = store.coll
    /\ oplog = [b \in Builders |-> <<>>]
    /\ turns = <<>>
    /\ text = None
    /\ variables = <<>>
    /\ evpc = "idle"
    /\ NoSearch

InitBuild == InitBuilders(BuildCorpora, {1})

NextBuild ==
    \E b \in Builders :
        \/ BuildStart(b) \/ Walk(b) \/ ProcessFile(b) \/ ProcessReturn(b)
        \/ CheckDocuments(b) \/ EncodeDocuments(b) \/ CheckExists(b) \/ Rmtree(b)
        \/ Mkdir(b) \/ OpenClient(b) \/ DeleteCollection(b) \/ CreateCollection(b)
        \/ Add(b) \/ TestSearch(b)

SpecBuild == InitBuild /\ [][NextBuild]_vars

\* two builds started against the same db_path
RaceFiles == { [open |-> "ok", content |-> Contents[k]] : k \in {"full", "summary"} }

RaceCorpora == UNION { CorporaOver(RaceFiles, n) : n \in 1..MaxRaceFiles }

InitRace == InitBuilders(RaceCorpora, {1, 2})

SpecRace == InitRace /\ [][NextBuild]_vars

(***************************************************************************)
(* Search requests                                                         *)
(***************************************************************************)
\* the metadata entries a stored record may come back with
MetaSamples ==
    << [t |-> "dict", m |-> Metadata(PathOf(1), JsonLoads(Contents.full).v)],
       EmptyMetadata,
       [t |-> "dict", m |-> [full_json |-> JStr(<<"{", "\"", "s", "\"", ":">>),
                             variables |-> JStr(<<"[", "\"", "A", "\"">>),
                             severity  |-> JStr(<<"I", "n", "f", "o">>)]],
       [t |-> "dict", m |-> [full_json |-> JStr(<<>>), variables |-> JStr(<<>>),
                             internal_only |-> JNum(1)]],
       [t |-> "dict", m |-> [full_json |-> JStr(<<"{", "}">>),
                             variables |-> JStr(<<"[", "\"", "A", "\"", "]">>),
                             log_type  |-> JNum(7)]],
       [t |-> "NoneType", m |-> <<>>] >>

ResultId(k)       == NotificationId(2 * (k - 1))
ResultDistance(k) == 25 * k
ResultDocument(k) == <<"d">> \o IntToStr(k)

\* the store's answer: None, or a dict whose four keys are each missing (-2),
\* an empty list (-1), or a list holding the list of the first n values (n)
Shapes(k) == (-2)..k
Size(shape) == IF shape > 0 THEN shape ELSE 0
OptList(shape, inner) ==
    IF shape = -2 THEN Missing
    ELSE IF shape = -1 THEN Outer(<<>>)
    ELSE Outer(<<inner>>)

InitSearch ==
    /\ IdleBuilders
    /\ text = None
    /\ variables = <<>>
    /\ evpc = "idle"
    /\ found = NotCalled
    /\ reply = NotCalled
    /\ max_results \in 1..MaxResults
    /\ \/ \E fault \in {"uninitialized", "encode", "query", "no results"} :
             /\ initialized = (fault # "uninitialized")
             /\ backend = [encode |-> IF fault = "encode" THEN "raise" ELSE "ok",
                           query |-> IF fault = "query" THEN "raise" ELSE "ok",
                           results |-> [none |-> TRUE, ids |-> Missing, metadatas |-> Missing,
                                        distances |-> Missing, documents |-> Missing]]
       \/ /\ initialized = TRUE
          /\ \E si, sm, sd, st \in Shapes(max_results) :
                \E ms \in [1..Size(sm) -> DOMAIN MetaSamples] :
                   backend = [encode |-> "ok", query |-> "ok",
                              results |->
                                [none |-> FALSE,
                                 ids |-> OptList(si, [k \in 1..Size(si) |-> ResultId(k)]),
                                 metadatas |-> OptList(sm, [k \in DOMAIN ms |-> MetaSamples[ms[k]]]),
                                 distances |-> OptList(sd, [k \in 1..Size(sd) |-> ResultDistance(k)]),
                                 documents |-> OptList(st, [k \in 1..Size(st) |-> ResultDocument(k)])]]

NextSearch == SearchNotifications \/ SearchServiceLogs

SpecSearch == InitSearch /\ [][NextSearch]_vars

(***************************************************************************)
(* Ingestion properties                                                    *)
(***************************************************************************)
\* the searchable text of a file, where it loads and composes
Composes(f) == LoadFile(f).ok /\ extract_searchable_text(LoadFile(f).v).ok
TextOf(f)   == extract_searchable_text(LoadFile(f).v).v
\* a text that is empty or has nothing but spaces
WhitespaceOnly(s) == SeqToSet(s) \subseteq {" "}
BlankText(f) == Composes(f) /\ WhitespaceOnly(TextOf(f))
Admissible(f) == Composes(f) /\ ~WhitespaceOnly(TextOf(f))
FilePathOf(f) == JStr(Join(<<"/">>, f.path))

\* the files taken so far whose entry is in the batch, by their file_path
EntriesOf(b, f) == { k \in DOMAIN metadatas[b] : metadatas[b][k].file_path = FilePathOf(f) }

\* C1: documents, metadatas and ids have the same length, entry k of each
\* comes from the same source file, and a file whose composed text is empty
\* or whitespace-only contributes to none of the three.
C1_ParallelSequences ==
    \A b \in Builders :
        /\ Len(documents[b]) = Len(metadatas[b])
        /\ Len(metadatas[b]) = Len(ids[b])
        /\ \A k \in DOMAIN ids[b] :
              \E j \in 1..idx[b] :
                  LET f == json_files[b][j]
                  IN  /\ Composes(f)
                      /\ documents[b][k] = TextOf(f)
                      /\ metadatas[b][k].file_path = FilePathOf(f)
                      /\ metadatas[b][k].full_json = JStr(JsonDumps(LoadFile(f).v))
                      /\ ids[b][k] = S_notification_ \o IntToStr(j - 1)
        /\ \A j \in 1..idx[b] :
              BlankText(json_files[b][j]) =>
                  /\ EntriesOf(b, json_files[b][j]) = {}
                  /\ \A k \in DOMAIN ids[b] : ids[b][k] # S_notification_ \o IntToStr(j - 1)

\* a returned batch holding the second file of a walk whose first file had
\* whitespace-only text
C1_Witness ==
    /\ pc[1] = "returned"
    /\ Len(json_files[1]) >= 2
    /\ BlankText(json_files[1][1]) /\ TextOf(json_files[1][1]) # <<>>
    /\ Len(documents[1]) >= 1
    /\ metadatas[1][1].file_path = FilePathOf(json_files[1][2])

\* C2 as stated: no source file aborts the batch (process_notification_files
\* always returns), and every well-formed file with non-blank text is in the
\* returned batch.
C2_NeverAbortsBatch ==
    \A b \in Builders :
        /\ pc[b] # "raised"
        /\ pc[b] = "returned" =>
              \A j \in DOMAIN json_files[b] :
                  Admissible(json_files[b][j]) => EntriesOf(b, json_files[b][j]) # {}

\* the ordinal an id carries
OrdinalOf(id) == CHOOSE n \in 0..(MaxFiles + 1) : id = S_notification_ \o IntToStr(n)

\* C3 as stated: the ids of a batch of n documents are pairwise distinct and
\* carry n consecutive ordinals in ingestion order.
C3_ConsecutiveOrdinals ==
    \A b \in Builders :
        /\ \A k, m \in DOMAIN ids[b] : k # m => ids[b][k] # ids[b][m]
        /\ \A k \in 1..(Len(ids[b]) - 1) : OrdinalOf(ids[b][k + 1]) = OrdinalOf(ids[b][k]) + 1

\* the files taken so far that were admitted, in walk order
AdmittedPositions(b) == { j \in 1..idx[b] : Admissible(json_files[b][j]) }

\* C3 amended: the ids are pairwise distinct and the k-th admitted document
\* carries the zero-based position of its file in the discovered list, so the
\* ordinals increase in ingestion order and skip the position of every file
\* that was skipped or failed.
C3_WalkPositionOrdinals ==
    \A b \in Builders :
        /\ \A k, m \in DOMAIN ids[b] : k # m => ids[b][k] # ids[b][m]
        /\ \A k \in 1..(Len(ids[b]) - 1) : OrdinalOf(ids[b][k]) < OrdinalOf(ids[b][k + 1])
        /\ { OrdinalOf(ids[b][k]) + 1 : k \in DOMAIN ids[b] } = AdmittedPositions(b)
        /\ \A k \in DOMAIN ids[b] :
              OrdinalOf(ids[b][k]) + 1 - k
                  = Cardinality({ j \in 1..OrdinalOf(ids[b][k]) : ~Admissible(json_files[b][j]) })

\* a returned batch of two documents around a skipped file
C3_Witness ==
    /\ pc[1] = "returned"
    /\ Len(ids[1]) = 2
    /\ OrdinalOf(ids[1][1]) = 0
    /\ OrdinalOf(ids[1][2]) = 2
    /\ ~Admissible(json_files[1][2])

(***************************************************************************)
(* Build properties                                                        *)
(***************************************************************************)
S_NoDocuments == "No documents to process. Exiting."

\* C4: when no document survives ingestion the build halts with a message and
\* mutates nothing: no embedding call, no destroy, no collection, no upsert,
\* and the store is what it was before the build.
C4_EmptyBatchIsNoOp ==
    \A b \in Builders :
        (pc[b] \notin {"idle", "build", "process", "loop"} /\ documents[b] = <<>>) =>
            /\ pc[b] \in {"returned", "done", "raised"}
            /\ pc[b] = "done" => out[b] = S_NoDocuments
            /\ store = store0
            /\ oplog[b] = <<>>
            /\ embeddings[b] = <<>>

\* a build over a corpus whose files were all skipped, halted in front of an
\* existing index
C4_Witness ==
    /\ pc[1] = "done"
    /\ documents[1] = <<>>
    /\ Len(json_files[1]) >= 2
    /\ out[1] = S_NoDocuments
    /\ store0 = OldStore
    /\ store = OldStore

IsPrefix(p, q) == Len(p) <= Len(q) /\ SubSeq(q, 1, Len(p)) = p

\* the calls of one build, in order, in front of a db_path that existed or not
BuildOps(existed) ==
    <<"encode", "exists">> \o (IF existed THEN <<"rmtree">> ELSE <<>>)
        \o <<"mkdir", "client", "delete_collection", "create_collection", "add", "query">>

\* the tuples of the builder's batch, from the three lists of the ingestion
CompleteBatch(b) ==
    { [id |-> ids[b][k], embedding |-> Embed(documents[b][k]),
       document |-> documents[b][k], metadata |-> metadatas[b][k]] : k \in DOMAIN ids[b] }

\* C5: a build with a non-empty batch makes one embedding call over the whole
\* batch, then destroys the existing index, then creates a fresh empty
\* collection, then upserts once; when it completes the store holds exactly
\* the new batch.
C5_BuildReplacesIndex ==
    /\ IsPrefix(oplog[1], BuildOps(store0.exists))
    /\ pc[1] \in {"exists", "rmtree", "mkdir", "client", "delete", "create", "add", "test", "done"}
          /\ documents[1] # <<>>
          => embeddings[1] = [k \in DOMAIN documents[1] |-> Embed(documents[1][k])]
    /\ pc[1] \in {"mkdir", "client", "delete", "create"} => store.coll = 0 /\ store.recs = {}
    /\ pc[1] = "add" => store.exists /\ store.coll = collection[1] /\ store.coll # store0.coll
                        /\ store.recs = {}
    /\ (pc[1] \in {"test", "done"} /\ documents[1] # <<>>) =>
          /\ store.exists /\ store.coll = collection[1]
          /\ store.recs = CompleteBatch(1)
          /\ Cardinality(store.recs) = Len(documents[1])

\* a completed build of two different documents over an existing index
C5_Witness ==
    /\ pc[1] = "done"
    /\ store0 = OldStore
    /\ Len(documents[1]) = 2
    /\ documents[1][1] # documents[1][2]
    /\ store.recs = CompleteBatch(1)
    /\ OldStore.recs \cap store.recs = {}

\* builder a made all its store calls before builder b made its first
Before(a, b) == turns \in {<<>>, <<a>>, <<b>>, <<a, b>>}

\* the build left by an exception of a store call
FailedAtStore(b) == pc[b] = "raised" /\ exc[b] \in {"FileNotFoundError", "ChromaError", "ValueError"}

\* C6: two concurrent rebuilds race on the destroy/create step.  Builds whose
\* store calls do not interleave never fail at a store call and leave the
\* complete batch of the later build; the witness is the interleaving that
\* makes a build fail part-way.
C6_OnlyInterleavedBuildsCorrupt ==
    \A a, b \in Builders :
        (a # b /\ Before(a, b)) =>
            /\ ~FailedAtStore(a) /\ ~FailedAtStore(b)
            /\ (pc[a] = "done" /\ pc[b] = "done") => store.recs = CompleteBatch(b)
            /\ (pc[a] = "done" /\ oplog[b] \in {<<>>, <<"encode">>}) => store.recs = CompleteBatch(a)

\* both builds are over, one of them failed at a store call after the store
\* had been touched, and the build that reported success is not the one
\* whose batch the failed build was writing
C6_Witness ==
    \E a, b \in Builders :
        /\ a # b
        /\ FailedAtStore(a) /\ exc[a] = "ChromaError"
        /\ pc[b] = "done"
        /\ ~Before(a, b) /\ ~Before(b, a)
        /\ store.recs # CompleteBatch(a)

(***************************************************************************)
(* Search properties                                                       *)
(***************************************************************************)
\* the request as the backend answers it
BackendOk  == initialized /\ backend.encode = "ok" /\ backend.query = "ok"
RawIds     == IF backend.results.ids.has /\ backend.results.ids.outer # <<>>
              THEN backend.results.ids.outer[1] ELSE <<>>
RawList(key) == IF backend.results[key].has /\ backend.results[key].outer # <<>>
                THEN backend.results[key].outer[1] ELSE <<>>
ZeroMatches == backend.results.none \/ RawIds = <<>>

\* every metadata entry that belongs to an id is a record
MetadataAreRecords ==
    \A i \in DOMAIN RawIds : i <= Len(RawList("metadatas")) => RawList("metadatas")[i].t = "dict"

\* C7: search_service_logs never raises and never returns an empty list: it
\* returns the search results, or one advisory record {message, suggestion}
\* on zero matches, or one record {error, suggestion} when a call raised.
C7_ToolNeverRaisesNorEmpty ==
    /\ reply.state # "raised"
    /\ reply.state = "returned" =>
          /\ reply.v # <<>>
          /\ IF ~BackendOk \/ (~ZeroMatches /\ ~MetadataAreRecords)
             THEN Len(reply.v) = 1 /\ DOMAIN reply.v[1] = {"error", "suggestion"}
             ELSE IF ZeroMatches
             THEN Len(reply.v) = 1 /\ DOMAIN reply.v[1] = {"message", "suggestion"}
             ELSE /\ Len(reply.v) = Len(RawIds)
                  /\ \A i \in DOMAIN reply.v : reply.v[i].id = RawIds[i]

\* the tool answered a request whose embedding call raised
C7_Witness ==
    /\ reply.state = "returned"
    /\ backend.encode = "raise"
    /\ Len(reply.v) = 1
    /\ reply.v[1].error = <<"Search failed: ", "ModelError">>

\* C8 as stated: an empty result set, a missing id list and an uninitialized
\* collection each make search_notifications return the empty sequence, not
\* an error.
C8_NoMatchCasesReturnEmpty ==
    (found.state # "none" /\ backend.encode = "ok" /\ backend.query = "ok"
        /\ (~initialized \/ ZeroMatches)) => found = Returned(<<>>)

\* C8 amended: an empty or absent result set, a missing id list and an empty
\* first id list each make search_notifications return the empty sequence;
\* an uninitialized collection makes it raise RuntimeError before any
\* embedding or store call.
C8_NoMatchReturnsEmptyUninitializedRaises ==
    found.state # "none" =>
        /\ (BackendOk /\ ZeroMatches) => found = Returned(<<>>)
        /\ ~initialized => found = Threw("RuntimeError")

\* the store answered with an id list that holds one empty list
C8_Witness ==
    /\ found = Returned(<<>>)
    /\ initialized
    /\ ~backend.results.none
    /\ backend.results.ids.has
    /\ backend.results.ids.outer = << <<>> >>

\* the payload of a metadata record as the result shows it
Payload(metadata, key, default, fallback) ==
    IF key \notin DOMAIN metadata.m THEN JsonLoads(default).v
    ELSE IF ~Truthy(metadata.m[key]) \/ ~JsonLoads(Str(metadata.m[key])).ok THEN fallback
    ELSE JsonLoads(Str(metadata.m[key])).v

\* C10: for a match bundle with a non-empty id list, whose metadatas,
\* distances and documents may be absent or shorter than ids and whose
\* payloads may be malformed, the reconstructor returns one result per id in
\* the store's order, with an empty record, distance 0.0 and empty document
\* text where the entry is missing and {} / [] where a payload is absent or
\* does not parse, and the query does not fail.
C10_OneResultPerId ==
    (found.state # "none" /\ BackendOk /\ ~ZeroMatches /\ MetadataAreRecords) =>
        /\ found.state = "returned"
        /\ Len(found.v) = Len(RawIds)
        /\ \A i \in DOMAIN RawIds :
              LET r  == found.v[i]
                  md == RawList("metadatas")
                  ds == RawList("distances")
                  dc == RawList("documents")
              IN  /\ r.id = RawIds[i]
                  /\ r.distance = (IF i \in DOMAIN ds THEN ds[i] ELSE 0)
                  /\ r.similarity = 100 - r.distance
                  /\ r.document_text = (IF i \in DOMAIN dc THEN dc[i] ELSE <<>>)
                  /\ IF i \in DOMAIN md
                     THEN /\ r.notification = Payload(md[i], "full_json", <<"{", "}">>, JDict(<<>>))
                          /\ r.variables = Payload(md[i], "variables", <<"[", "]">>, JList(<<>>))
                     ELSE /\ r.notification = JDict(<<>>)
                          /\ r.variables = JList(<<>>)
                          /\ r.file_path = <<>> /\ r.folder = <<>>
                          /\ r.severity = S_Unknown /\ r.service_name = S_Unknown
                          /\ r.log_type = S_Unknown /\ r.internal_only = FALSE

\* two results from a bundle without distances whose only metadata entry has
\* payloads that do not parse
C10_Witness ==
    /\ found.state = "returned"
    /\ Len(found.v) = 2
    /\ ~backend.results.distances.has
    /\ Len(RawList("metadatas")) = 1
    /\ RawList("metadatas")[1] = MetaSamples[3]
    /\ Len(RawList("documents")) = 1
    /\ found.v[1].notification = JDict(<<>>) /\ found.v[1].variables = JList(<<>>)
    /\ found.v[2].id = ResultId(2) /\ found.v[2].distance = 0 /\ found.v[2].document_text = <<>>

(***************************************************************************)
(* Placeholder extraction, stated independently of the scan                *)
(***************************************************************************)
StrictlyAscending(q) == \A k \in 1..(Len(q) - 1) : StrLess(q[k], q[k + 1])

\* s[i..j] is "${", then one or more characters none of which is in Stop, then "}"
IsOccurrence(s, i, j, Stop) ==
    /\ i + 3 <= j /\ j <= Len(s)
    /\ s[i] = "$" /\ s[i + 1] = "{" /\ s[j] = "}"
    /\ \A k \in (i + 2)..(j - 1) : s[k] \notin Stop

\* every occurrence of "${" non-brace+ "}" anywhere in s
BraceFreeNames(s) ==
    { SubSeq(s, i + 2, j - 1) : <<i, j>> \in
        { p \in (1..Len(s)) \X (1..Len(s)) : IsOccurrence(s, p[1], p[2], {"{", "}"}) } }

\* the occurrences of "${" [^}]+ "}" as <<start, end>> pairs
Occurrences(s) ==
    { p \in (1..Len(s)) \X (1..Len(s)) : IsOccurrence(s, p[1], p[2], {"}"}) }

\* the occurrences a left-to-right scan keeps: those not starting inside an
\* earlier kept occurrence
ScanOccurrences(s) ==
    CHOOSE K \in SUBSET Occurrences(s) :
        \A p \in Occurrences(s) :
            p \in K <=> \A q \in K : q[1] < p[1] => q[2] < p[1]

ScanNames(s) == { SubSeq(s, p[1] + 2, p[2] - 1) : p \in ScanOccurrences(s) }

\* C9 as stated: the result is the ascending duplicate-free list of the names
\* of all occurrences of "${", one or more non-brace characters, "}".
C9_BraceFreePattern ==
    evpc = "returned" =>
        /\ StrictlyAscending(variables)
        /\ SeqToSet(variables) = (IF text.none THEN {} ELSE BraceFreeNames(text.s))

\* C9 amended: the result is the ascending duplicate-free list of the names of
\* the occurrences of "${", one or more characters other than "}", "}" that a
\* left-to-right non-overlapping scan finds; None, the empty text and a text
\* without placeholder give the empty list.
C9_ExtractVariables ==
    evpc = "returned" =>
        /\ StrictlyAscending(variables)
        /\ SeqToSet(variables) = (IF text.none THEN {} ELSE ScanNames(text.s))
        /\ (text.none \/ text.s = <<>> \/ Occurrences(text.s) = {}) => variables = <<>>

C9_Witness ==
    /\ evpc = "returned"
    /\ text = PyStr(<<"$", "{", "B", "}", "$", "{", "A", "}">>)
    /\ variables = << <<"A">>, <<"B">> >>

====
